---- MODULE Spec2Model ----
(***************************************************************************)
(* Authentication broker of cli-blockstack: identity discovery, the        *)
(* /auth and /signin handlers, the transit envelope and the profile        *)
(* reconciliation (updateProfileApps).                                     *)
(*                                                                         *)
(* JavaScript values are represented as follows.                           *)
(*   string          a sequence of one-character strings; <<>> is ''       *)
(*   null/undefined  an optional value is a sequence of length 0 or 1:     *)
(*                   <<>> is absent, <<v>> is the value v                  *)
(*   object as map   a function whose DOMAIN is the set of own properties  *)
(*   array of scopes a set (only Array.includes is used on it)             *)
(***************************************************************************)
EXTENDS Integers, Sequences, FiniteSets, TLC

(***************************************************************************)
(* Bounds of the model.                                                    *)
(***************************************************************************)
MaxUrlLen == 4      \* longest apps[origin] string a fetched profile carries
MaxNames == 2       \* names the registry holds for the seed, over all indices
MaxPages == 2       \* sign-in pages rendered in one behaviour
BoundWindow == 6    \* how far below the index limit the bounded runs begin
MaxRequests == 2    \* /auth requests that may be in flight together

(***************************************************************************)
(* Strings.                                                                *)
(***************************************************************************)
Chars == {"a", "b", "/"}

RECURSIVE StringsUpTo(_)
StringsUpTo(n) ==
  IF n = 0 THEN {<<>>}
  ELSE LET shorter == StringsUpTo(n - 1)
       IN  shorter \cup {Append(s, c) : s \in {t \in shorter : Len(t) = n - 1}, c \in Chars}

\* String.prototype.startsWith
startsWith(s, prefix) ==
  /\ Len(s) >= Len(prefix)
  /\ SubSeq(s, 1, Len(prefix)) = prefix

(***************************************************************************)
(* Profile documents and storage-hub configurations.                       *)
(***************************************************************************)
Origins == {"app.example", "other.example"}

\* the document updateProfileApps instantiates when the name has no profile
DefaultProfile == [type |-> "@Person", account |-> <<>>, apps |-> << <<>> >>]

\* url_prefix of a hub's read endpoint and the address of the key connected
UrlPrefixes == {<<"/">>, <<"/", "/">>}
Addresses == {<<"a">>, <<"b">>}
GaiaHubConfigs == [url_prefix : UrlPrefixes, address : Addresses]

\* apps maps a fetched profile may carry: the entry of the application is
\* absent or any string (the empty string is the falsy entry), the entry of
\* another application is absent or present
AppsMaps ==
  LET mine  == {<<>>} \cup {<<s>> : s \in StringsUpTo(MaxUrlLen)}
      other == {<<>>, << <<"/", "b", "/">> >>}
  IN  { [o \in ({"app.example"} \cap (IF m = <<>> THEN {} ELSE Origins))
               \cup ({"other.example"} \cap (IF t = <<>> THEN {} ELSE Origins))
            |-> IF o = "app.example" THEN m[1] ELSE t[1]] : m \in mine, t \in other }

ProfileDocs ==
  {[type |-> "@Person", account |-> acc, apps |-> <<>>] : acc \in {<<>>, <<"twitter">>}}
  \cup {[type |-> "@Person", account |-> <<>>, apps |-> <<m>>] : m \in AppsMaps}

\* what nameLookup resolves to in updateProfileApps: null after a failure
\* (the .catch), or profile data whose profile may be missing
ProfileDatas == {<<>>} \cup {<<[profile |-> <<>>]>>}
                \cup {<<[profile |-> <<p>>]>> : p \in ProfileDocs}

(***************************************************************************)
(* updateProfileApps, the body of its .then on the lookup's result.        *)
(***************************************************************************)
gaiaPrefixOf(appGaiaConfig) ==
  appGaiaConfig.url_prefix \o appGaiaConfig.address \o <<"/">>

updateProfileApps_noSlash(profileData, appOrigin, appGaiaConfig) ==
  LET fetched    == IF profileData # <<>> THEN profileData[1].profile ELSE <<>>
      profile0   == IF fetched = <<>> THEN DefaultProfile ELSE fetched[1]
      apps0      == IF profile0.apps = <<>> THEN <<>> ELSE profile0.apps[1]
      gaiaPrefix == gaiaPrefixOf(appGaiaConfig)
      written    == appGaiaConfig.url_prefix \o appGaiaConfig.address
      missing    == appOrigin \notin DOMAIN apps0 \/ apps0[appOrigin] = <<>>
      wrong      == ~missing /\ ~startsWith(apps0[appOrigin], gaiaPrefix)
      apps1      == IF missing \/ wrong
                    THEN [o \in DOMAIN apps0 \cup {appOrigin} |->
                            IF o = appOrigin THEN written ELSE apps0[o]]
                    ELSE apps0
  IN  [profile |-> [profile0 EXCEPT !.apps = <<apps1>>],
       changed |-> (fetched = <<>>) \/ (profile0.apps = <<>>) \/ missing \/ wrong]

updateProfileApps_keepStale(profileData, appOrigin, appGaiaConfig) ==
  LET fetched    == IF profileData # <<>> THEN profileData[1].profile ELSE <<>>
      profile0   == IF fetched = <<>> THEN DefaultProfile ELSE fetched[1]
      apps0      == IF profile0.apps = <<>> THEN <<>> ELSE profile0.apps[1]
      gaiaPrefix == gaiaPrefixOf(appGaiaConfig)
      missing    == appOrigin \notin DOMAIN apps0 \/ apps0[appOrigin] = <<>>
      apps1      == IF missing
                    THEN [o \in DOMAIN apps0 \cup {appOrigin} |->
                            IF o = appOrigin THEN gaiaPrefix ELSE apps0[o]]
                    ELSE apps0
  IN  [profile |-> [profile0 EXCEPT !.apps = <<apps1>>],
       changed |-> (fetched = <<>>) \/ (profile0.apps = <<>>) \/ missing]

updateProfileApps_dropOthers(profileData, appOrigin, appGaiaConfig) ==
  LET fetched    == IF profileData # <<>> THEN profileData[1].profile ELSE <<>>
      profile0   == IF fetched = <<>> THEN DefaultProfile ELSE fetched[1]
      apps0      == IF profile0.apps = <<>> THEN <<>> ELSE profile0.apps[1]
      gaiaPrefix == gaiaPrefixOf(appGaiaConfig)
      missing    == appOrigin \notin DOMAIN apps0 \/ apps0[appOrigin] = <<>>
      wrong      == ~missing /\ ~startsWith(apps0[appOrigin], gaiaPrefix)
      apps1      == IF missing \/ wrong
                    THEN [o \in {appOrigin} |-> gaiaPrefix]
                    ELSE apps0
  IN  [profile |-> [profile0 EXCEPT !.apps = <<apps1>>],
       changed |-> (fetched = <<>>) \/ (profile0.apps = <<>>) \/ missing \/ wrong]

updateProfileApps(profileData, appOrigin, appGaiaConfig) ==
  LET \* if (profileData) profile = profileData.profile
      fetched    == IF profileData # <<>> THEN profileData[1].profile ELSE <<>>
      \* if (!profile): instantiate
      profile0   == IF fetched = <<>> THEN DefaultProfile ELSE fetched[1]
      \* if (profile.apps === null || profile.apps === undefined): apps = {}
      apps0      == IF profile0.apps = <<>> THEN <<>> ELSE profile0.apps[1]
      gaiaPrefix == gaiaPrefixOf(appGaiaConfig)
      \* !profile.apps.hasOwnProperty(appOrigin) || !profile.apps[appOrigin]
      missing    == appOrigin \notin DOMAIN apps0 \/ apps0[appOrigin] = <<>>
      \* else if (!profile.apps[appOrigin].startsWith(gaiaPrefix))
      wrong      == ~missing /\ ~startsWith(apps0[appOrigin], gaiaPrefix)
      apps1      == IF missing \/ wrong
                    THEN [o \in DOMAIN apps0 \cup {appOrigin} |->
                            IF o = appOrigin THEN gaiaPrefix ELSE apps0[o]]
                    ELSE apps0
  IN  [profile |-> [profile0 EXCEPT !.apps = <<apps1>>],
       changed |-> (fetched = <<>>) \/ (profile0.apps = <<>>) \/ missing \/ wrong]

(***************************************************************************)
(* State of a reconciliation applied to a profile and then to its result.  *)
(***************************************************************************)
VARIABLES
  rcData,     \* the profile data the first lookup resolved to
  rcOrigin,   \* appOrigin
  rcConfig,   \* appGaiaConfig
  rcFirst,    \* optional result of the first updateProfileApps
  rcSecond    \* optional result of updateProfileApps on the first's profile

rcVars == <<rcData, rcOrigin, rcConfig, rcFirst, rcSecond>>

RcIdle ==
  /\ rcData = <<>>
  /\ rcOrigin = "app.example"
  /\ rcConfig = [url_prefix |-> <<"/">>, address |-> <<"a">>]
  /\ rcFirst = <<>>
  /\ rcSecond = <<>>

RcInit ==
  /\ rcData \in ProfileDatas
  /\ rcOrigin \in Origins
  /\ rcConfig \in GaiaHubConfigs
  /\ rcFirst = <<>>
  /\ rcSecond = <<>>

(***************************************************************************)
(* Backup phrase encryption (encrypt.js).  A buffer is the record of its   *)
(* three slices, salt(16) || hmac(32) || ciphertext, and of what triplesec *)
(* finds in the same bytes.  Keys, digests and ciphertexts are records     *)
(* naming what they were computed from.                                    *)
(***************************************************************************)
Passwords == {"pw", "other"}
Mnemonics == {"abandon ... about", "legal ... will"}

\* crypto.randomBytes(16)
Salts == {"salt1"}

\* crypto.pbkdf2Sync(password, salt, 100000, 48, 'sha512'), sliced
pbkdf2Sync(pass, salt) ==
  [encKey |-> <<"enc", pass, salt>>, macKey |-> <<"mac", pass, salt>>,
   iv |-> <<"iv", pass, salt>>]

\* bip39.mnemonicToEntropy / entropyToMnemonic
normalizeMnemonic(mnemonic) == [entropyOf |-> mnemonic]
denormalizeMnemonic(plaintext) == plaintext.entropyOf
validateMnemonic(mnemonic) == mnemonic \in Mnemonics

\* crypto.createHmac('sha256', macKey) over hmacPayload
Hmac(macKey, hmacPayload) == [macKey |-> macKey, over |-> hmacPayload]
\* crypto.createHash('sha256')
Sha256(data) == <<"sha256", data>>

\* bytes that are no output of the cipher or of the HMAC under any key here
NoKey == <<"none", "", "">>
JunkCipherText == [encKey |-> NoKey, iv |-> NoKey, plaintext |-> [entropyOf |-> ""]]
JunkHmac == Hmac(NoKey, <<"", JunkCipherText>>)

\* encryptMnemonic, for a valid mnemonic
encryptMnemonic(mnemonic, pass, salt) ==
  LET keysAndIV  == pbkdf2Sync(pass, salt)
      cipherText == [encKey |-> keysAndIV.encKey, iv |-> keysAndIV.iv,
                     plaintext |-> normalizeMnemonic(mnemonic)]
  IN  [salt |-> salt,
       hmac |-> Hmac(keysAndIV.macKey, <<salt, cipherText>>),
       cipherText |-> cipherText,
       triplesec |-> <<>>]

\* buffers handed to decryptBackupPhrase: written by encryptMnemonic, the
\* same with the stored HMAC damaged, or written by triplesec (the legacy
\* format)
DataBuffers ==
  LET current == {encryptMnemonic(m, p, s) : m \in Mnemonics, p \in Passwords, s \in Salts}
  IN  current
      \cup {[b EXCEPT !.hmac = JunkHmac] : b \in current}
      \cup {[salt |-> "", hmac |-> JunkHmac, cipherText |-> JunkCipherText,
             triplesec |-> <<[key |-> p, plaintext |-> m]>>] :
              m \in Mnemonics, p \in Passwords}

VARIABLES
  dataBuffer,   \* decryptBackupPhrase: dataBuffer
  password,     \* decryptBackupPhrase: password
  padsUnder,    \* the passwords under whose key, though not the encryption
                \* key, the cipher finds a well-formed padding in the bytes
  dpc,          \* position of decryptBackupPhrase's promise chain
  dOps,         \* the decryptions attempted, in order
  dCurrent,     \* optional outcome of decryptMnemonic
  dOutcome      \* optional outcome of decryptBackupPhrase

encVars == <<dataBuffer, password, padsUnder, dpc, dOps, dCurrent, dOutcome>>

EncIdle ==
  /\ dataBuffer = encryptMnemonic("legal ... will", "pw", "salt1")
  /\ password = "pw"
  /\ padsUnder = {}
  /\ dpc = "idle"
  /\ dOps = <<>>
  /\ dCurrent = <<>>
  /\ dOutcome = <<>>

EncInit ==
  /\ dataBuffer \in DataBuffers
  /\ password \in Passwords
  /\ padsUnder \in SUBSET Passwords
  /\ dpc = "start"
  /\ dOps = <<>>
  /\ dCurrent = <<>>
  /\ dOutcome = <<>>

\* decipher.update / decipher.final of aes-128-cbc: <<>> when final() throws
\* on the padding
Decipher(cipherText, encKey, iv, pass) ==
  IF cipherText.encKey = encKey /\ cipherText.iv = iv THEN <<cipherText.plaintext>>
  ELSE IF pass \in padsUnder THEN <<[entropyOf |-> ""]>>
  ELSE <<>>

Resolved(value, steps) == [ok |-> TRUE, value |-> value, message |-> "", steps |-> steps]
Rejected(message, steps) == [ok |-> FALSE, value |-> "", message |-> message, steps |-> steps]

\* decryptMnemonic, the body of its .then; steps lists what it ran
decryptMnemonic(buf, pass) ==
  LET salt        == buf.salt
      hmacSig     == buf.hmac
      cipherText  == buf.cipherText
      hmacPayload == <<salt, cipherText>>
      keysAndIV   == pbkdf2Sync(pass, salt)
      \* decipher.update(...) + decipher.final()
      plaintext   == Decipher(cipherText, keysAndIV.encKey, keysAndIV.iv, pass)
      hmacDigest  == Hmac(keysAndIV.macKey, hmacPayload)
  IN  IF plaintext = <<>>
        THEN Rejected("bad decrypt", <<"decipher">>)
      ELSE IF Sha256(hmacSig) # Sha256(hmacDigest)
        THEN Rejected("Wrong password (HMAC mismatch)", <<"decipher", "hmac">>)
      ELSE IF ~validateMnemonic(denormalizeMnemonic(plaintext[1]))
        THEN Rejected("Wrong password (invalid plaintext)", <<"decipher", "hmac">>)
      ELSE Resolved(denormalizeMnemonic(plaintext[1]), <<"decipher", "hmac">>)

\* triplesec.decrypt({key, data}, callback): err or the plaintext
triplesecDecrypt(buf, key) ==
  IF buf.triplesec = <<>> THEN Rejected("triplesec: bad header", <<>>)
  ELSE IF buf.triplesec[1].key # key THEN Rejected("triplesec: signature mismatch", <<>>)
  ELSE Resolved(buf.triplesec[1].plaintext, <<>>)

\* the message of the Error decryptBackupPhrase rejects with:
\* `current algorithm: "${e.message}", legacy algorithm: "${err.message}"`
decryptBackupPhrase_error_legacyOnly(e, err) == [current |-> "", legacy |-> err.message]

decryptBackupPhrase_error(e, err) == [current |-> e.message, legacy |-> err.message]

NoError == [current |-> "", legacy |-> ""]

(***************************************************************************)
(* Keys.  A private key is a tuple naming its derivation; a public key is  *)
(* <<"pub", private key>>; a token is [signer, payload] and verifies under *)
(* a public key iff that key is the signer's.                              *)
(***************************************************************************)
getPublicKeyFromPrivateKey(privateKey) == <<"pub", privateKey>>

\* const authTransitKey = crypto.randomBytes(32), once per process
authTransitKey == <<"transit">>
authTransitPubkey == getPublicKeyFromPrivateKey(authTransitKey)
\* the key of another local program
rogueKey == <<"rogue">>

TokenSign(privateKey, payload) == [signer |-> privateKey, payload |-> payload]
TokenVerify(publicKey, token) == getPublicKeyFromPrivateKey(token.signer) = publicKey

\* blockstack.encryptContent / decryptContent: decryption under another key
\* than the one encrypted for throws (<<>>)
encryptContent(content, publicKey) == [encFor |-> publicKey, content |-> content]
decryptContent(cipher, privateKey) ==
  IF cipher.encFor = getPublicKeyFromPrivateKey(privateKey) THEN <<cipher.content>> ELSE <<>>

\* keys.getOwnerKeyInfo: the owner keypair of (seed, index)
getOwnerKeyInfo(index) ==
  [idAddress |-> <<"ID", index>>, privateKey |-> <<"owner", index>>]

\* keys.getApplicationKeyInfo: the two candidate application keys
getApplicationKeyInfo(idAddress, appOrigin, index) ==
  [keyInfo       |-> [privateKey |-> <<"app", index, appOrigin, "current">>,
                      address |-> <<"a">>],
   legacyKeyInfo |-> [privateKey |-> <<"app", index, appOrigin, "legacy">>,
                      address |-> <<"b">>]]

\* the storage address of an application key (gaiaConnect reports it)
AddressOfAppKey(appPrivateKey) ==
  IF appPrivateKey[4] = "current" THEN <<"a">> ELSE <<"b">>

\* addresses a profile's read URL may hold: those of the two candidate keys
\* and one that is the address of neither
ProfileAddresses == Addresses \cup {<<"c">>}

\* data.getGaiaAddressFromProfile: the address the profile's apps[origin]
\* references; <<>> when it throws (no profile, no apps, no entry, or no
\* address in the URL)
RECURSIVE FirstAddress(_)
FirstAddress(url) ==
  IF url = <<>> THEN <<>>
  ELSE IF <<Head(url)>> \in ProfileAddresses THEN << <<Head(url)>> >>
  ELSE FirstAddress(Tail(url))

getGaiaAddressFromProfile(profile, appOrigin) ==
  IF profile = <<>> THEN <<>>
  ELSE IF profile[1].apps = <<>> THEN <<>>
  ELSE IF appOrigin \notin DOMAIN profile[1].apps[1] THEN <<>>
  ELSE FirstAddress(profile[1].apps[1][appOrigin])

\* keys.extractAppKey: without an address the context-free key; with an
\* existing address the candidate whose address matches, and a failure
\* (<<>>) when none does
extractAppKey(appKeyInfo, appAddress) ==
  IF appAddress = <<>> THEN <<appKeyInfo.keyInfo.privateKey>>
  ELSE IF appKeyInfo.keyInfo.address = appAddress[1]
    THEN <<appKeyInfo.keyInfo.privateKey>>
  ELSE IF appKeyInfo.legacyKeyInfo.address = appAddress[1]
    THEN <<appKeyInfo.legacyKeyInfo.privateKey>>
  ELSE <<>>

getAppPrivateKey_contextFreeOnly(id, appOrigin) ==
  extractAppKey(getApplicationKeyInfo(id.idAddress, appOrigin, id.index), <<>>)[1]

getAppPrivateKey(id, appOrigin) ==
  LET appKeyInfo == getApplicationKeyInfo(id.idAddress, appOrigin, id.index)
      \* try { existingAppAddress = getGaiaAddressFromProfile(...)
      existingAppAddress == getGaiaAddressFromProfile(id.profile, appOrigin)
      \*       appPrivateKey = extractAppKey(network, appKeyInfo, existingAppAddress) }
      tried == IF existingAppAddress = <<>> THEN <<>>
               ELSE extractAppKey(appKeyInfo, existingAppAddress)
  IN  IF tried # <<>> THEN tried[1]
      \* catch (e) { appPrivateKey = extractAppKey(network, appKeyInfo) }
      ELSE extractAppKey(appKeyInfo, <<>>)[1]

(***************************************************************************)
(* Inputs and environment of the handlers.                                 *)
(***************************************************************************)
\* if (index > 65536) throw new Error('Too many names')
MaxIndex == 65536
\* let errorStatusCode = 400
DefaultErrorStatus == 400

ScopeSets == {{}, {"store_write"}, {"email"}, {"store_write", "email"}}

\* decoded payloads of the authRequest tokens applications send
AuthRequests ==
  {[domain_name |-> "app.example", redirect_uri |-> "app.example/redirect",
    scopes |-> sc, public_keys |-> <<"appTransitPub">>] : sc \in ScopeSets}

\* profiles the registry serves for the seed's names during discovery
RegistryProfiles ==
  {[type |-> "@Person", account |-> <<>>, apps |-> <<>>],
   [type |-> "@Person", account |-> <<>>,
    apps |-> <<[o \in {"app.example"} |-> <<"/", "b", "/">>]>>],
   [type |-> "@Person", account |-> <<>>,
    apps |-> <<[o \in {"app.example"} |-> <<"/", "/">>]>>],
   [type |-> "@Person", account |-> <<>>,
    apps |-> <<[o \in {"app.example"} |-> <<"/", "c", "/">>]>>]}

\* outcome of one nameLookup of discovery: it fails (.catch gives null), it
\* resolves to an object carrying an error, or it resolves to name data
LookupOutcomes ==
  {[kind |-> "fail", profile |-> <<>>], [kind |-> "error", profile |-> <<>>]}
  \cup {[kind |-> "ok", profile |-> <<p>>] : p \in RegistryProfiles}

ProfileUrlOf(name) == <<"profile", name>>

NameDataOf(name, outcome) ==
  IF outcome.kind = "fail" THEN <<>>
  ELSE IF outcome.kind = "error"
    THEN <<[error |-> TRUE, profileUrl |-> <<>>, profile |-> <<>>]>>
  ELSE <<[error |-> FALSE, profileUrl |-> ProfileUrlOf(name), profile |-> outcome.profile]>>

\* an error message: its text and the token the text embeds, if any
Msg(text) == [text |-> text, token |-> <<>>]
\* `${errorMsg}` in a template literal
Render(errorMsg) == IF errorMsg = <<>> THEN Msg("undefined") ELSE errorMsg[1]

(***************************************************************************)
(* State of the broker process and of the request it is serving.           *)
(***************************************************************************)
VARIABLES
  coerceMainnet,   \* network's process-wide address-normalization flag
  links,           \* encAuthResponse tokens the browser holds: the links of
                   \* the page it shows, or the one it has followed
  nextSalt,        \* pages rendered so far: crypto.randomBytes is fresh, the
                   \* salt of link i of page p is <<p, i>>
  redeemed,        \* the encAuthResponse tokens, of those the browser holds,
                   \* that handleSignIn has answered with the redirect
  handler,         \* the handler serving the request: "auth", "signin" or ""
  pc,              \* position of the request's promise chain
  token,           \* optional query parameter of the request
  index,           \* loadNamedIdentitiesLoop: index
  identities,      \* loadNamedIdentitiesLoop / getIdentityInfo: identities
  owned,           \* number of names the registry answered, per index queried
  nameDatas,       \* getIdentityInfo: what the lookups resolved to
  errorMsg,        \* optional errorMsg of the handler
  errorStatusCode, \* handleSignIn: errorStatusCode
  authResponse,    \* handleSignIn: optional authResponse
  closure,         \* handleSignIn: optional id, profileUrl, appOrigin, ...
  appHubConfig,    \* handleSignIn: optional result of gaiaConnect
  newProfileData,  \* handleSignIn: optional result of updateProfileApps
  res,             \* optional response written
  resCount,        \* responses written for the request
  calls,           \* calls made to collaborators for the request, in order
  failedStep,      \* the step of the pipeline that failed, "" if none
  closedAt         \* optional: the number of calls made when the client closed
                   \* the connection of the request

(***************************************************************************)
(* Several /auth requests in flight in one process: each has its own       *)
(* promise chain over getIdentityInfo, all share network's flag and see    *)
(* the same registry.                                                      *)
(***************************************************************************)
Requests == 1..MaxRequests

VARIABLES
  registry,   \* names the registry holds per index: registry[i + 1] for index i
  runs        \* per request: position of its getIdentityInfo chain, index,
              \* number of identities pushed, and the registry calls issued

concVars == <<registry, runs>>

\* every index below the first unowned one owns a name
RECURSIVE Registries(_)
Registries(left) ==
  {<<0>>} \cup UNION {{<<n>> \o r : r \in Registries(left - n)} : n \in 1..left}

IdleRun == [pc |-> "idle", index |-> 0, found |-> 0, issued |-> <<>>]

ConcIdle ==
  /\ registry = <<0>>
  /\ runs = [r \in Requests |-> IdleRun]

ConcInit ==
  /\ registry \in Registries(MaxNames)
  /\ runs = [r \in Requests |-> IdleRun]

procVars == <<coerceMainnet, links, nextSalt, redeemed>>
discVars == <<index, identities, owned, nameDatas>>
signVars == <<errorStatusCode, authResponse, closure, appHubConfig, newProfileData>>
reqVars == <<handler, pc, token, errorMsg, res, resCount, calls, failedStep, closedAt>>
mainVars == <<procVars, discVars, signVars, reqVars>>
\* the state of the pure-function harnesses
auxVars == <<rcVars, encVars, concVars>>
vars == <<mainVars, auxVars>>

Call(op, arg) == [op |-> op, arg |-> arg, coerce |-> coerceMainnet]

\* the state a handler's closure variables have when the request arrives
FreshRequest ==
  /\ index' = 0
  /\ identities' = <<>>
  /\ owned' = <<>>
  /\ nameDatas' = <<>>
  /\ errorStatusCode' = DefaultErrorStatus
  /\ authResponse' = <<>>
  /\ closure' = <<>>
  /\ appHubConfig' = <<>>
  /\ newProfileData' = <<>>
  /\ closedAt' = <<>>

MainInit ==
  /\ coerceMainnet = FALSE
  /\ links = {}
  /\ nextSalt = 0
  /\ redeemed = {}
  /\ handler = ""
  /\ pc = "idle"
  /\ token = <<>>
  /\ index = 0
  /\ identities = <<>>
  /\ owned = <<>>
  /\ nameDatas = <<>>
  /\ errorMsg = <<>>
  /\ errorStatusCode = DefaultErrorStatus
  /\ authResponse = <<>>
  /\ closure = <<>>
  /\ appHubConfig = <<>>
  /\ newProfileData = <<>>
  /\ res = <<>>
  /\ resCount = 0
  /\ calls = <<>>
  /\ failedStep = ""
  /\ closedAt = <<>>

Init == MainInit /\ RcIdle /\ EncIdle /\ ConcIdle

Accepting == pc \in {"idle", "done"}

\* sendJSON(res, data, statusCode)
sendJSON(data, statusCode) ==
  /\ res' = <<[status |-> statusCode, contentType |-> "application/json", data |-> data]>>
  /\ resCount' = resCount + 1

(***************************************************************************)
(* Identity discovery and the sign-in page.                                *)
(***************************************************************************)
\* loadNamedIdentitiesLoop: if (index > 65536) throw
loadNamedIdentitiesLoop_throws_late(i) == i > MaxIndex + 1

loadNamedIdentitiesLoop_throws(i) == i > MaxIndex

\* the identities loadNamedIdentitiesLoop pushes for the names of one index
NamedIdentities(i, n) ==
  [j \in 1..n |-> [name |-> <<i, j>>,
                   idAddress |-> getOwnerKeyInfo(i).idAddress,
                   privateKey |-> getOwnerKeyInfo(i).privateKey,
                   index |-> i,
                   profile |-> <<>>,       \* {}
                   profileUrl |-> <<>>]]   \* ''

loadUnnamedIdentity(i) ==
  [name |-> <<>>,
   idAddress |-> getOwnerKeyInfo(i).idAddress,
   privateKey |-> getOwnerKeyInfo(i).privateKey,
   index |-> i,
   profile |-> <<>>,
   profileUrl |-> <<>>]

\* getIdentityInfo, the .then on the lookups' results (nameDatas)
AttachNameDatas_indexAfterFilter(ids, resolved) ==
  LET found    == SelectSeq(resolved, LAMBDA d : d # <<>>)
      attached == [i \in 1..Len(ids) |->
                     IF i > Len(found) THEN ids[i]
                     ELSE IF found[i][1].error
                       THEN [ids[i] EXCEPT !.profileUrl = <<>>]
                     ELSE [ids[i] EXCEPT !.profileUrl = found[i][1].profileUrl,
                                         !.profile = found[i][1].profile]]
      kept     == SelectSeq(attached, LAMBDA id : id.profileUrl # <<>>)
  IN  Append(kept, loadUnnamedIdentity(Len(kept) + 1))

AttachNameDatas(ids, resolved) ==
  LET \* nameDatas.filter((p) => p !== null && p !== undefined)
      found    == SelectSeq(resolved, LAMBDA d : d # <<>>)
      \* for (i < nameDatas.length) identities[i] takes nameDatas[i]
      attached == [i \in 1..Len(ids) |->
                     IF i > Len(found) THEN ids[i]
                     ELSE IF found[i][1].error
                       THEN [ids[i] EXCEPT !.profileUrl = <<>>]
                     ELSE [ids[i] EXCEPT !.profileUrl = found[i][1].profileUrl,
                                         !.profile = found[i][1].profile]]
      nextIndex == Len(ids) + 1
      \* identities.filter((id) => !!id.profileUrl)
      kept     == SelectSeq(attached, LAMBDA id : id.profileUrl # <<>>)
  IN  Append(kept, loadUnnamedIdentity(nextIndex))

\* data.makeAssociationToken
makeAssociationToken(appPrivateKey, identityKey) ==
  TokenSign(identityKey, [childToAssociate |-> getPublicKeyFromPrivateKey(appPrivateKey)])

\* makeSignInLink: the encAuthResponse of the link
makeSignInLink(authRequest, id, salt) ==
  LET appOrigin     == authRequest.domain_name
      appPrivateKey == getAppPrivateKey(id, appOrigin)
      payload == [iss |-> getPublicKeyFromPrivateKey(id.privateKey),
                  username |-> id.name,
                  private_key |-> encryptContent(appPrivateKey, authRequest.public_keys[1]),
                  associationToken |-> makeAssociationToken(appPrivateKey, id.privateKey),
                  metadata |-> [id |-> id,
                                profileUrl |-> id.profileUrl,
                                appOrigin |-> appOrigin,
                                redirect_uri |-> authRequest.redirect_uri,
                                scopes |-> authRequest.scopes,
                                salt |-> salt]]
      signed == TokenSign(id.privateKey, payload)
  IN  TokenSign(authTransitKey, [json |-> encryptContent(signed, authTransitPubkey)])

\* makeAuthPage: one entry per identity
makeAuthPage(authRequest, ids, salt0) ==
  [i \in 1..Len(ids) |->
     [fmt |-> IF ids[i].name # <<>> THEN "SIGNIN_FMT_NAME" ELSE "SIGNIN_FMT_ID",
      blockstackID |-> ids[i].name,
      idAddress |-> ids[i].idAddress,
      authRedirect |-> makeSignInLink(authRequest, ids[i], <<salt0, i>>)]]

(***************************************************************************)
(* handleAuth: GET /auth?authRequest=...                                   *)
(***************************************************************************)
AuthPrefix == "Unable to authenticate app request: "

\* the .catch of handleAuth, entered with exception e from the step `step`
handleAuth_catch(e, step) ==
  LET msg == IF errorMsg = <<>> THEN <<e>> ELSE errorMsg
  IN  /\ errorMsg' = msg
      /\ sendJSON([error |-> [prefix |-> AuthPrefix, msg |-> Render(msg)]], 400)
      /\ failedStep' = step
      /\ pc' = "done"

handleAuth_NoToken_unchecked ==
  /\ Accepting
  /\ handler' = "auth"
  /\ token' = <<>>
  /\ FreshRequest
  /\ errorMsg' = <<>>
  /\ res' = <<>>
  /\ resCount' = 0
  /\ failedStep' = ""
  /\ coerceMainnet' = TRUE
  /\ calls' = <<[op |-> "getNamesOwned", arg |-> 0, coerce |-> TRUE]>>
  /\ pc' = "names"
  /\ UNCHANGED <<links, nextSalt, redeemed, auxVars>>

\* if (!authToken): 400, and nothing else
handleAuth_NoToken ==
  /\ Accepting
  /\ handler' = "auth"
  /\ token' = <<>>
  /\ FreshRequest
  /\ errorMsg' = <<>>
  /\ calls' = <<>>
  /\ failedStep' = "receive"
  /\ res' = <<[status |-> 400, contentType |-> "application/json",
               data |-> [error |-> [prefix |-> "", msg |-> Msg("No authRequest given")]]]>>
  /\ resCount' = 1
  /\ pc' = "done"
  /\ UNCHANGED <<coerceMainnet, links, nextSalt, redeemed, auxVars>>

\* getIdentityInfo up to the first registry query of loadNamedIdentitiesLoop
handleAuth_Start ==
  /\ Accepting
  /\ nextSalt < MaxPages
  /\ handler' = "auth"
  /\ \E t \in AuthRequests : token' = <<t>>
  /\ FreshRequest
  /\ errorMsg' = <<>>
  /\ res' = <<>>
  /\ resCount' = 0
  /\ failedStep' = ""
  /\ coerceMainnet' = TRUE
  /\ calls' = <<[op |-> "getNamesOwned", arg |-> 0, coerce |-> TRUE]>>
  /\ pc' = "names"
  /\ links' = {}
  /\ redeemed' = {}
  /\ UNCHANGED <<nextSalt, auxVars>>

\* getIdentityInfo's .catch: network.setCoerceMainnetAddress(false)
getIdentityInfo_catch_coerce_kept == coerceMainnet

getIdentityInfo_catch_coerce == FALSE

\* loadNamedIdentitiesLoop, the .then on the nameList of `index`, n names
loadNamedIdentitiesLoop_then(n) ==
  /\ pc = "names"
  /\ owned' = Append(owned, n)
  /\ identities' = identities \o NamedIdentities(index, n)
  /\ IF n = 0
       THEN \* out of names: getIdentityInfo issues one nameLookup per identity
            /\ calls' = calls \o [i \in 1..Len(identities) |->
                                    Call("nameLookup", identities[i].name)]
            /\ pc' = "lookups"
            /\ UNCHANGED <<index, coerceMainnet, errorMsg, res, resCount, failedStep>>
       ELSE IF loadNamedIdentitiesLoop_throws(index + 1)
         THEN \* the throw rejects the chain; getIdentityInfo's .catch resets
              \* the flag and rethrows to handleAuth's .catch
              /\ coerceMainnet' = getIdentityInfo_catch_coerce
              /\ handleAuth_catch(Msg("Too many names"), "discovery")
              /\ UNCHANGED <<index, calls>>
         ELSE /\ index' = index + 1
              /\ calls' = Append(calls, Call("getNamesOwned", index + 1))
              /\ UNCHANGED <<pc, coerceMainnet, errorMsg, res, resCount, failedStep>>
  /\ UNCHANGED <<links, nextSalt, redeemed, handler, token, closedAt, nameDatas, signVars, auxVars>>

\* the registry answers with as many names as it holds for the index
getNamesOwned_Answer ==
  \E n \in 0..(MaxNames - Len(identities)) : loadNamedIdentitiesLoop_then(n)

\* getNamesOwned rejects
getNamesOwned_Fails ==
  /\ pc = "names"
  /\ coerceMainnet' = getIdentityInfo_catch_coerce
  /\ handleAuth_catch(Msg("registry unavailable"), "discovery")
  /\ UNCHANGED <<links, nextSalt, redeemed, handler, token, closedAt, calls, discVars, signVars, auxVars>>

\* getIdentityInfo, the .then on nameDatas, and handleAuth's first .then
getIdentityInfo_NameDatas ==
  /\ pc = "lookups"
  /\ \E outcome \in [1..Len(identities) -> LookupOutcomes] :
       /\ nameDatas' = [i \in 1..Len(identities) |->
                          NameDataOf(identities[i].name, outcome[i])]
       /\ identities' = AttachNameDatas(identities, nameDatas')
  /\ coerceMainnet' = FALSE
  /\ errorMsg' = <<Msg("Unable to verify authentication token")>>
  /\ calls' = Append(calls, [op |-> "verifyAuthRequest", arg |-> <<>>, coerce |-> FALSE])
  /\ pc' = "verifyRequest"
  /\ UNCHANGED <<links, nextSalt, redeemed, handler, token, closedAt, index, owned, signVars,
                 res, resCount, failedStep, auxVars>>

\* handleAuth, the .then on verifyAuthRequest's result
handleAuth_Verified ==
  /\ pc = "verifyRequest"
  /\ \E r \in {"valid", "invalid", "reject"} :
       CASE r = "valid" ->
              /\ errorMsg' = <<Msg("Unable to fetch app manifest")>>
              /\ calls' = Append(calls, Call("fetchAppManifest", <<>>))
              /\ pc' = "manifest"
              /\ UNCHANGED <<res, resCount, failedStep>>
         [] r = "invalid" ->
              /\ errorMsg' = <<Msg("Invalid authentication token: could not verify")>>
              /\ sendJSON([error |-> [prefix |-> AuthPrefix,
                            msg |-> Msg("Invalid authentication token: could not verify")]],
                          400)
              /\ failedStep' = "verifyRequest"
              /\ pc' = "done"
              /\ UNCHANGED calls
         [] r = "reject" ->
              /\ handleAuth_catch(Msg("verifyAuthRequest failed"), "verifyRequest")
              /\ UNCHANGED calls
  /\ UNCHANGED <<procVars, handler, token, closedAt, discVars, signVars, auxVars>>

\* handleAuth, the .then on the manifest: render the page.  A token that
\* verifyAuthRequest accepted decodes to a payload, so the 'no payload' throw
\* is not taken.
handleAuth_Manifest ==
  /\ pc = "manifest"
  /\ \E r \in {"ok", "reject"} :
       IF r = "reject"
         THEN /\ handleAuth_catch(Msg("manifest fetch failed"), "manifest")
              /\ UNCHANGED <<links, nextSalt, redeemed>>
         ELSE LET authPage == makeAuthPage(token[1], identities, nextSalt)
              IN  /\ res' = <<[status |-> 200, contentType |-> "text/html",
                               data |-> [page |-> authPage]]>>
                  /\ resCount' = resCount + 1
                  /\ links' = {authPage[i].authRedirect : i \in 1..Len(authPage)}
                  /\ nextSalt' = nextSalt + 1
                  /\ redeemed' = {}
                  /\ pc' = "done"
                  /\ UNCHANGED <<errorMsg, failedStep>>
  /\ UNCHANGED <<coerceMainnet, handler, token, closedAt, calls, discVars, signVars, auxVars>>

(***************************************************************************)
(* handleSignIn: GET /signin?encAuthResponse=...                           *)
(***************************************************************************)
SignInPrefix == "Unable to process signin request: "

\* an envelope another local program signs with its own key, around a
\* payload it has captured from the browser or built for an identity of its
\* own
RogueIdentity == [loadUnnamedIdentity(1) EXCEPT !.privateKey = rogueKey]
RogueEnvelopes ==
  {[e EXCEPT !.signer = rogueKey] :
     e \in links \cup {makeSignInLink(CHOOSE a \in AuthRequests : a.scopes = {"store_write"},
                                      RogueIdentity, <<0, 0>>)}}

\* the .catch of handleSignIn: it reports errorMsg, whatever was thrown
handleSignIn_catch(msg, statusCode, step) ==
  /\ errorMsg' = msg
  /\ errorStatusCode' = statusCode
  /\ sendJSON([error |-> [prefix |-> SignInPrefix, msg |-> Render(msg)]], statusCode)
  /\ failedStep' = step
  /\ pc' = "done"

\* if (!encAuthResponse): 400, and nothing else
handleSignIn_NoToken ==
  /\ Accepting
  /\ handler' = "signin"
  /\ token' = <<>>
  /\ FreshRequest
  /\ errorMsg' = <<>>
  /\ calls' = <<>>
  /\ failedStep' = "receive"
  /\ res' = <<[status |-> 400, contentType |-> "application/json",
               data |-> [error |-> [prefix |-> "", msg |-> Msg("No encAuthResponse given")]]]>>
  /\ resCount' = 1
  /\ pc' = "done"
  /\ UNCHANGED <<coerceMainnet, links, nextSalt, redeemed, auxVars>>

\* whether the first .then goes on to decrypt the envelope
EnvelopeAccepted_unchecked(encAuthResponse) == TRUE

EnvelopeAccepted(encAuthResponse) == TokenVerify(authTransitPubkey, encAuthResponse)

\* the request arrives with an encAuthResponse: the chain is created
handleSignIn_Start ==
  /\ Accepting
  /\ handler' = "signin"
  /\ FreshRequest
  /\ \E encAuthResponse \in links \cup RogueEnvelopes :
       /\ token' = <<encAuthResponse>>
       /\ links' = IF encAuthResponse \in links THEN {encAuthResponse} ELSE links
       /\ redeemed' = redeemed \cap links'
  /\ errorMsg' = <<>>
  /\ res' = <<>>
  /\ resCount' = 0
  /\ calls' = <<>>
  /\ failedStep' = ""
  /\ pc' = "envelope"
  /\ UNCHANGED <<coerceMainnet, nextSalt, auxVars>>

\* the first .then: verify the envelope, decrypt, start verifyAuthResponse
handleSignIn_Envelope ==
  /\ pc = "envelope"
  /\ IF ~EnvelopeAccepted(token[1])
       THEN \* throw new Error('... not signed by this authenticator')
            /\ handleSignIn_catch(errorMsg, errorStatusCode, "envelope")
            /\ UNCHANGED <<calls, authResponse>>
       ELSE LET plain == decryptContent(token[1].payload.json, authTransitKey)
            IN  /\ authResponse' = plain
                /\ IF plain = <<>>
                     THEN /\ handleSignIn_catch(errorMsg, errorStatusCode, "decrypt")
                          /\ calls' = <<Call("decryptContent", <<>>)>>
                     ELSE /\ calls' = <<Call("decryptContent", <<>>),
                                        Call("verifyAuthResponse", <<>>)>>
                          /\ pc' = "verifyResponse"
                          /\ UNCHANGED <<errorMsg, errorStatusCode, res, resCount,
                                         failedStep>>
  /\ UNCHANGED <<procVars, handler, token, closedAt, discVars, closure, appHubConfig, newProfileData,
                 auxVars>>

\* the token handed to the application: metadata reduced, signed by the id
FinalAuthResponse_unstripped(payload, id, profileUrl) ==
  TokenSign(id.privateKey, payload)

FinalAuthResponse(payload, id, profileUrl) ==
  TokenSign(id.privateKey, [payload EXCEPT !.metadata = [profileUrl |-> profileUrl]])

\* the second .then: getAppPrivateKey(network, mnemonic, id, appOrigin)
handleSignIn_getAppPrivateKey_noProfile(metadata) ==
  getAppPrivateKey([metadata.id EXCEPT !.profile = <<>>], metadata.appOrigin)

handleSignIn_getAppPrivateKey(metadata) ==
  getAppPrivateKey(metadata.id, metadata.appOrigin)

\* the second .then, on verifyAuthResponse's result
handleSignIn_Verified ==
  /\ pc = "verifyResponse"
  /\ \E r \in {"valid", "invalid", "reject"} :
       CASE r = "reject" ->
              /\ handleSignIn_catch(errorMsg, errorStatusCode, "credential")
              /\ UNCHANGED <<authResponse, closure, calls>>
         [] r = "invalid" ->
              /\ handleSignIn_catch(
                   <<[text |-> "Unable to verify authResponse token ", token |-> authResponse]>>,
                   errorStatusCode, "credential")
              /\ UNCHANGED <<authResponse, closure, calls>>
         [] r = "valid" ->
              LET payload  == authResponse[1].payload
                  metadata == payload.metadata
                  appPrivateKey == handleSignIn_getAppPrivateKey(metadata)
              IN  /\ closure' = <<[id |-> metadata.id,
                                   profileUrl |-> metadata.profileUrl,
                                   appOrigin |-> metadata.appOrigin,
                                   redirectUri |-> metadata.redirect_uri,
                                   scopes |-> metadata.scopes]>>
                  /\ authResponse' = <<FinalAuthResponse(payload, metadata.id,
                                                         metadata.profileUrl)>>
                  /\ calls' = Append(calls, Call("gaiaConnect", appPrivateKey))
                  /\ pc' = "connect"
                  /\ UNCHANGED <<errorMsg, errorStatusCode, res, resCount, failedStep>>
  /\ UNCHANGED <<procVars, handler, token, closedAt, discVars, appHubConfig, newProfileData, auxVars>>

\* the third .then, on gaiaConnect's result: updateProfileApps looks the name up
handleSignIn_Connected ==
  /\ pc = "connect"
  /\ \E r \in {<<>>} \cup {<<u>> : u \in UrlPrefixes} :
       IF r = <<>>
         THEN /\ handleSignIn_catch(errorMsg, errorStatusCode, "connect")
              /\ UNCHANGED <<appHubConfig, calls>>
         ELSE /\ appHubConfig' = <<[url_prefix |-> r[1],
                                    address |-> AddressOfAppKey(calls[Len(calls)].arg)]>>
              /\ calls' = Append(calls, Call("nameLookup", closure[1].id.name))
              /\ pc' = "reconcile"
              /\ UNCHANGED <<errorMsg, errorStatusCode, res, resCount, failedStep>>
  /\ UNCHANGED <<procVars, handler, token, closedAt, discVars, authResponse, closure, newProfileData, auxVars>>

\* newProfileData.changed && scopes.includes('store_write')
needProfileUpdate_anyScope(changed, scopes) == changed /\ scopes # {}

needProfileUpdate(changed, scopes) == changed /\ "store_write" \in scopes

\* updateProfileApps on the lookup's result, and the fourth .then
handleSignIn_Reconciled ==
  /\ pc = "reconcile"
  /\ \E profileData \in ProfileDatas :
       LET new == updateProfileApps(profileData, closure[1].appOrigin, appHubConfig[1])
       IN  /\ newProfileData' = <<new>>
           /\ IF needProfileUpdate(new.changed, closure[1].scopes)
                THEN /\ calls' = Append(calls, Call("gaiaUploadProfileAll", new.profile))
                     /\ pc' = "uploading"
                ELSE /\ calls' = calls
                     /\ pc' = "skipped"
  /\ UNCHANGED <<procVars, handler, token, closedAt, discVars, errorMsg, errorStatusCode, authResponse,
                 closure, appHubConfig, res, resCount, failedStep, auxVars>>

\* errorStatusCode = 502 before the throw
UploadFailureStatus_unset == DefaultErrorStatus

UploadFailureStatus == 502

\* the last .then, on gaiaUrls: 502 after a failed upload, else redirect
handleSignIn_Finish ==
  /\ pc \in {"uploading", "skipped"}
  /\ \E failed \in (IF pc = "uploading" THEN BOOLEAN ELSE {FALSE}) :
       IF failed
         THEN /\ handleSignIn_catch(<<Msg("Failed to upload new profile: hub error")>>,
                                    UploadFailureStatus, "upload")
              /\ UNCHANGED redeemed
         ELSE /\ res' = <<[status |-> 302, contentType |-> "",
                           data |-> [Location |-> [uri |-> closure[1].redirectUri,
                                                   authResponse |-> authResponse[1]]]]>>
              /\ resCount' = resCount + 1
              /\ redeemed' = redeemed \cup {token[1]}
              /\ pc' = "done"
              /\ UNCHANGED <<errorMsg, errorStatusCode, failedStep>>
  /\ UNCHANGED <<coerceMainnet, links, nextSalt, handler, token, closedAt, discVars, authResponse, closure, appHubConfig,
                 newProfileData, calls, auxVars>>

Next == \/ handleAuth_NoToken
        \/ handleAuth_Start
        \/ getNamesOwned_Answer
        \/ getNamesOwned_Fails
        \/ getIdentityInfo_NameDatas
        \/ handleAuth_Verified
        \/ handleAuth_Manifest
        \/ handleSignIn_NoToken
        \/ handleSignIn_Start
        \/ handleSignIn_Envelope
        \/ handleSignIn_Verified
        \/ handleSignIn_Connected
        \/ handleSignIn_Reconciled
        \/ handleSignIn_Finish

Spec == Init /\ [][Next]_vars

(***************************************************************************)
(* Reconciliation applied twice: updateProfileApps on any profile data,    *)
(* origin and hub configuration, then on the profile it returned.          *)
(***************************************************************************)
InitReconcile == MainInit /\ RcInit /\ EncIdle /\ ConcIdle

\* updateProfileApps on the fetched profile data
ReconcileFirst ==
  /\ rcFirst = <<>>
  /\ rcFirst' = <<updateProfileApps(rcData, rcOrigin, rcConfig)>>
  /\ UNCHANGED <<rcData, rcOrigin, rcConfig, rcSecond, mainVars, encVars, concVars>>

\* updateProfileApps again, the lookup now resolving to the profile returned
ReconcileAgain ==
  /\ rcFirst # <<>>
  /\ rcSecond = <<>>
  /\ rcSecond' = <<updateProfileApps(<<[profile |-> <<rcFirst[1].profile>>]>>,
                                     rcOrigin, rcConfig)>>
  /\ UNCHANGED <<rcData, rcOrigin, rcConfig, rcFirst, mainVars, encVars, concVars>>

NextReconcile == ReconcileFirst \/ ReconcileAgain

SpecReconcile == InitReconcile /\ [][NextReconcile]_vars

(***************************************************************************)
(* decryptBackupPhrase on any buffer, password and cipher behaviour.       *)
(***************************************************************************)
InitDecrypt == MainInit /\ RcIdle /\ EncInit /\ ConcIdle

\* decryptBackupPhrase: decryptMnemonic(dataBuffer, password) settles
decryptBackupPhrase_Current ==
  /\ dpc = "start"
  /\ LET r == decryptMnemonic(dataBuffer, password)
     IN  /\ dCurrent' = <<r>>
         /\ dOps' = Append(dOps, "decryptMnemonic")
         /\ IF r.ok
              THEN /\ dOutcome' = <<[ok |-> TRUE, value |-> r.value, error |-> NoError]>>
                   /\ dpc' = "resolved"
              ELSE /\ dOutcome' = dOutcome
                   /\ dpc' = "catch"
  /\ UNCHANGED <<dataBuffer, password, padsUnder, mainVars, rcVars, concVars>>

\* the .catch: try the old way
decryptBackupPhrase_catch ==
  /\ dpc = "catch"
  /\ dOps' = Append(dOps, "triplesec.decrypt")
  /\ dpc' = "legacy"
  /\ UNCHANGED <<dataBuffer, password, padsUnder, dCurrent, dOutcome, mainVars, rcVars, concVars>>

\* the callback of triplesec.decrypt
triplesec_callback ==
  /\ dpc = "legacy"
  /\ LET r == triplesecDecrypt(dataBuffer, password)
     IN  IF r.ok
           THEN /\ dOutcome' = <<[ok |-> TRUE, value |-> r.value, error |-> NoError]>>
                /\ dpc' = "resolved"
           ELSE /\ dOutcome' = <<[ok |-> FALSE, value |-> "",
                                  error |-> decryptBackupPhrase_error(dCurrent[1], r)]>>
                /\ dpc' = "rejected"
  /\ UNCHANGED <<dataBuffer, password, padsUnder, dOps, dCurrent, mainVars, rcVars, concVars>>

NextDecrypt ==
  \/ decryptBackupPhrase_Current
  \/ decryptBackupPhrase_catch
  \/ triplesec_callback

SpecDecrypt == InitDecrypt /\ [][NextDecrypt]_vars

(***************************************************************************)
(* The handlers with a client that may close the connection of the request *)
(* being served.  Neither handler registers a listener on the request or   *)
(* the response, so the close changes nothing in the handler's state.      *)
(***************************************************************************)
ClientCloses ==
  /\ ~Accepting
  /\ closedAt = <<>>
  /\ closedAt' = <<Len(calls)>>
  /\ UNCHANGED <<procVars, discVars, signVars, handler, pc, token, errorMsg, res, resCount,
                 calls, failedStep, auxVars>>

NextCancel == Next \/ ClientCloses

SpecCancel == Init /\ [][NextCancel]_vars

(***************************************************************************)
(* The handlers with external calls that may never settle.  A callback     *)
(* runs once the call it waits for has settled; the code sets no timer on  *)
(* any call, so a call that never settles leaves its chain where it is.    *)
(***************************************************************************)
\* positions of a chain that wait for the registry, the manifest server,
\* the token verifier's lookups or a storage hub
AwaitingExternal ==
  {"names", "lookups", "verifyRequest", "manifest",
   "verifyResponse", "connect", "reconcile", "uploading"}

\* the call the chain is waiting for never returns
ExternalCallHangs ==
  /\ pc \in AwaitingExternal
  /\ pc' = "hung"
  /\ UNCHANGED <<procVars, discVars, signVars, handler, token, errorMsg, res, resCount,
                 calls, failedStep, closedAt, auxVars>>

NextLive == Next \/ ExternalCallHangs

SpecLive ==
  /\ Init
  /\ [][NextLive]_vars
  /\ WF_vars(getNamesOwned_Answer \/ getNamesOwned_Fails)
  /\ WF_vars(getIdentityInfo_NameDatas)
  /\ WF_vars(handleAuth_Verified)
  /\ WF_vars(handleAuth_Manifest)
  /\ WF_vars(handleSignIn_Envelope)
  /\ WF_vars(handleSignIn_Verified)
  /\ WF_vars(handleSignIn_Connected)
  /\ WF_vars(handleSignIn_Reconciled)
  /\ WF_vars(handleSignIn_Finish)

(***************************************************************************)
(* Concurrent /auth requests: the getIdentityInfo chains of the requests,  *)
(* interleaved at their awaits.                                            *)
(***************************************************************************)
InitConcurrent ==
  /\ MainInit
  /\ RcIdle
  /\ EncIdle
  /\ ConcInit

notFlag == <<links, nextSalt, redeemed, discVars, signVars, reqVars, rcVars, encVars, registry>>

\* handleAuth calls getIdentityInfo: the flag is set, the first query issued
getIdentityInfo_Begin ==
  \E r \in Requests :
    /\ runs[r].pc = "idle"
    /\ coerceMainnet' = TRUE
    /\ runs' = [runs EXCEPT ![r] =
                  [pc |-> "names", index |-> 0, found |-> 0,
                   issued |-> <<[op |-> "getNamesOwned", arg |-> 0, coerce |-> TRUE]>>]]
    /\ UNCHANGED notFlag

\* loadNamedIdentitiesLoop's .then of a request, on the registry's answer
getIdentityInfo_NameList ==
  \E r \in Requests :
    LET run == runs[r]
        n   == registry[run.index + 1]
    IN  /\ run.pc = "names"
        /\ IF n = 0
             THEN /\ runs' = [runs EXCEPT ![r] =
                       [run EXCEPT !.pc = "lookups",
                                   !.issued = @ \o [i \in 1..run.found |->
                                                      Call("nameLookup", i)]]]
                  /\ UNCHANGED coerceMainnet
             ELSE IF loadNamedIdentitiesLoop_throws(run.index + 1)
               THEN /\ runs' = [runs EXCEPT ![r] =
                         [run EXCEPT !.pc = "failed", !.found = @ + n]]
                    /\ coerceMainnet' = getIdentityInfo_catch_coerce
               ELSE /\ runs' = [runs EXCEPT ![r] =
                         [run EXCEPT !.index = @ + 1, !.found = @ + n,
                                     !.issued = Append(@, Call("getNamesOwned",
                                                               run.index + 1))]]
                    /\ UNCHANGED coerceMainnet
        /\ UNCHANGED notFlag

\* getNamesOwned of a request rejects: getIdentityInfo's .catch
getIdentityInfo_Rejects ==
  \E r \in Requests :
    /\ runs[r].pc = "names"
    /\ runs' = [runs EXCEPT ![r].pc = "failed"]
    /\ coerceMainnet' = getIdentityInfo_catch_coerce
    /\ UNCHANGED notFlag

\* getIdentityInfo's .then on nameDatas of a request
getIdentityInfo_Resolves ==
  \E r \in Requests :
    /\ runs[r].pc = "lookups"
    /\ runs' = [runs EXCEPT ![r].pc = "resolved"]
    /\ coerceMainnet' = FALSE
    /\ UNCHANGED notFlag

NextConcurrent ==
  \/ getIdentityInfo_Begin
  \/ getIdentityInfo_NameList
  \/ getIdentityInfo_Rejects
  \/ getIdentityInfo_Resolves

SpecConcurrent == InitConcurrent /\ [][NextConcurrent]_vars

(***************************************************************************)
(* Discovery against a registry in which every index owns a name: the      *)
(* loop is taken up at a call loadNamedIdentitiesLoop(index, identities)   *)
(* close to the index limit, and identities and owned hold what is added   *)
(* from there on.  The call reads nothing of the accumulator, it only      *)
(* appends to it.                                                          *)
(***************************************************************************)
InitBound ==
  /\ RcIdle
  /\ EncIdle
  /\ ConcIdle
  /\ coerceMainnet = TRUE
  /\ links = {}
  /\ nextSalt = 0
  /\ redeemed = {}
  /\ handler = "auth"
  /\ pc = "names"
  /\ token \in {<<t>> : t \in AuthRequests}
  /\ index \in (MaxIndex - BoundWindow)..MaxIndex
  /\ identities = <<>>
  /\ owned = <<>>
  /\ nameDatas = <<>>
  /\ errorMsg = <<>>
  /\ errorStatusCode = DefaultErrorStatus
  /\ authResponse = <<>>
  /\ closure = <<>>
  /\ appHubConfig = <<>>
  /\ newProfileData = <<>>
  /\ res = <<>>
  /\ resCount = 0
  /\ calls = <<[op |-> "getNamesOwned", arg |-> index, coerce |-> TRUE]>>
  /\ failedStep = ""
  /\ closedAt = <<>>

\* the registry never answers with an empty name list
getNamesOwned_AlwaysOwned ==
  \E n \in 1..MaxNames : loadNamedIdentitiesLoop_then(n)

NextBound == getNamesOwned_AlwaysOwned

\* the registry answers every query
SpecBound == InitBound /\ [][NextBound]_vars /\ WF_vars(NextBound)

(***************************************************************************)
(* Properties.                                                             *)
(***************************************************************************)
Uploads == SelectSeq(calls, LAMBDA c : c.op = "gaiaUploadProfileAll")
CallsOf(op) == SelectSeq(calls, LAMBDA c : c.op = op)
Status == res[1].status

\* C1: in handleSignIn the profile is uploaded to the profile hub iff
\* updateProfileApps reported changed and the scopes include 'store_write';
\* in every other run that reaches the step there is no write call and the
\* request ends in the redirect.
C1_UploadIffChangedAndWriteScope ==
  /\ newProfileData = <<>> => Len(Uploads) = 0
  /\ newProfileData # <<>> =>
       LET wanted == newProfileData[1].changed /\ "store_write" \in closure[1].scopes
       IN  /\ Len(Uploads) = (IF wanted THEN 1 ELSE 0)
           /\ wanted => Uploads[1].arg = newProfileData[1].profile
           /\ (~wanted /\ pc = "done") => (Status = 302 /\ resCount = 1)

C1_Witness ==
  /\ pc = "done"
  /\ newProfileData # <<>>
  /\ newProfileData[1].changed
  /\ closure[1].scopes = {"email"}
  /\ Status = 302

\* C2: a handleSignIn request ends in exactly one response: the 302 redirect
\* to the redirect target carrying authResponse, only if no step failed; 502
\* JSON iff an upload was attempted and failed; 400 JSON for every other
\* failure.
C2_SignInOutcomes ==
  handler = "signin" =>
    /\ pc # "done" => (resCount = 0 /\ res = <<>>)
    /\ pc = "done" =>
         /\ resCount = 1
         /\ Status \in {302, 400, 502}
         /\ Status = 302 <=> failedStep = ""
         /\ Status = 502 <=> (failedStep = "upload" /\ Len(Uploads) = 1)
         /\ Status = 400 <=>
              failedStep \in {"receive", "envelope", "decrypt", "credential", "connect"}
         /\ Status # 302 => res[1].contentType = "application/json"
         /\ Status = 302 =>
              /\ TokenVerify(authTransitPubkey, token[1])
              /\ Len(CallsOf("verifyAuthResponse")) = 1
              /\ Len(CallsOf("gaiaConnect")) = 1
              /\ appHubConfig # <<>>
              /\ newProfileData # <<>>
              /\ res[1].data.Location.uri = closure[1].redirectUri
              /\ res[1].data.Location.authResponse = authResponse[1]

C2_Witness ==
  /\ handler = "signin"
  /\ pc = "done"
  /\ Status = 502

\* the entry of the application in the fetched profile data, if any
RcEntry ==
  IF rcData = <<>> \/ rcData[1].profile = <<>> THEN <<>>
  ELSE IF rcData[1].profile[1].apps = <<>> THEN <<>>
  ELSE IF rcOrigin \notin DOMAIN rcData[1].profile[1].apps[1] THEN <<>>
  ELSE <<rcData[1].profile[1].apps[1][rcOrigin]>>
RcHasApps ==
  rcData # <<>> /\ rcData[1].profile # <<>> /\ rcData[1].profile[1].apps # <<>>
RcExpectedPrefix == rcConfig.url_prefix \o rcConfig.address \o <<"/">>

\* C3: reconciliation is idempotent: applied to the profile it returned, with
\* the same origin and hub configuration, updateProfileApps reports
\* changed=false and returns an identical profile.
C3_ReconcileIdempotent ==
  rcSecond # <<>> =>
    /\ ~rcSecond[1].changed
    /\ rcSecond[1].profile = rcFirst[1].profile

C3_Witness ==
  /\ rcSecond # <<>>
  /\ rcFirst[1].changed
  /\ RcEntry # <<>>
  /\ RcEntry[1] # <<>>

\* C4: after updateProfileApps, apps[origin] starts with expectedPrefix; an
\* absent, falsy or differently prefixed entry is set to exactly
\* expectedPrefix with changed=true; an absent profile or apps map gives
\* changed=true; an entry that already starts with expectedPrefix in an
\* existing apps map gives changed=false.
C4_ReconcileCorrect ==
  rcFirst # <<>> =>
    LET out  == rcFirst[1]
        apps == out.profile.apps[1]
        good == RcEntry # <<>> /\ startsWith(RcEntry[1], RcExpectedPrefix)
    IN  /\ out.profile.apps # <<>>
        /\ rcOrigin \in DOMAIN apps
        /\ startsWith(apps[rcOrigin], RcExpectedPrefix)
        /\ ~good => (apps[rcOrigin] = RcExpectedPrefix /\ out.changed)
        /\ ~RcHasApps => out.changed
        /\ (RcHasApps /\ good) => (~out.changed /\ apps[rcOrigin] = RcEntry[1])

C4_Witness ==
  /\ rcFirst # <<>>
  /\ RcEntry # <<>>
  /\ Len(RcEntry[1]) > Len(RcExpectedPrefix)
  /\ ~startsWith(RcEntry[1], RcExpectedPrefix)

\* getIdentityInfo has resolved: handleAuth's first .then has run
DiscoveryDone == handler = "auth" /\ Len(CallsOf("verifyAuthRequest")) = 1
\* the first index that owns no name
FirstUnowned == Len(owned) - 1
\* the names owned at the indices below i, in the order of discovery
RECURSIVE NamesBelow(_)
NamesBelow(i) ==
  IF i = 0 THEN <<>>
  ELSE NamesBelow(i - 1) \o [j \in 1..owned[i] |-> <<i - 1, j>>]
NamedReturned == SubSeq(identities, 1, Len(identities) - 1)
PositionOf(name, names) == CHOOSE q \in 1..Len(names) : names[q] = name

\* C5, as claimed: discovery returns exactly the identities of the names
\* owned at the indices below k, none missing, followed by one anonymous
\* identity whose index is (the number of named identities returned)+1.
C5_AsClaimed ==
  DiscoveryDone =>
    /\ Len(identities) >= 1
    /\ [i \in 1..Len(NamedReturned) |-> NamedReturned[i].name] = NamesBelow(FirstUnowned)
    /\ identities[Len(identities)].name = <<>>
    /\ identities[Len(identities)].index = Len(NamedReturned) + 1

\* C5, amended: discovery returns, in the order of discovery and at most
\* once each, identities of names owned at the indices below k, as many as
\* lookups resolved with a profile URL, each with a non-empty profile URL,
\* and all of them when every lookup did; then exactly one anonymous
\* identity whose index is (the number of names owned below k)+1.
C5_Discovery ==
  DiscoveryDone =>
    LET all   == NamesBelow(FirstUnowned)
        named == NamedReturned
        anon  == identities[Len(identities)]
        okLookups == {i \in 1..Len(nameDatas) :
                        nameDatas[i] # <<>> /\ ~nameDatas[i][1].error}
    IN  /\ Len(identities) >= 1
        /\ owned[Len(owned)] = 0
        /\ \A i \in 1..FirstUnowned : owned[i] >= 1
        /\ Len(nameDatas) = Len(all)
        /\ anon = loadUnnamedIdentity(Len(all) + 1)
        /\ anon.name = <<>>
        /\ \A i \in 1..Len(named) :
             /\ named[i].name # <<>>
             /\ named[i].profileUrl # <<>>
             /\ \E q \in 1..Len(all) : all[q] = named[i].name
             /\ named[i].index = named[i].name[1]
             /\ named[i].index < FirstUnowned
             /\ named[i].idAddress = getOwnerKeyInfo(named[i].index).idAddress
             /\ named[i].privateKey = getOwnerKeyInfo(named[i].index).privateKey
        /\ \A i, j \in 1..Len(named) :
             i < j => PositionOf(named[i].name, all) < PositionOf(named[j].name, all)
        /\ Len(named) = Cardinality(okLookups)
        /\ Cardinality(okLookups) = Len(all) =>
             [i \in 1..Len(named) |-> named[i].name] = all

C5_Witness ==
  /\ DiscoveryDone
  /\ FirstUnowned = 2
  /\ nameDatas[1] = <<>>
  /\ Len(identities) = 2

\* C6: against a registry that never answers with an empty list, discovery
\* issues no ownership query at index 65537 or beyond, and ends, rejected
\* with 'Too many names' on reaching index 65537, in the caller's error
\* response.
C6_DiscoveryBound ==
  /\ [](/\ \A i \in 1..Len(calls) :
             calls[i].op = "getNamesOwned" => calls[i].arg < 65537
        /\ index < 65537
        /\ pc \in {"names", "done"}
        /\ pc = "done" =>
             /\ index + 1 = 65537
             /\ failedStep = "discovery"
             /\ resCount = 1
             /\ Status = 400
             /\ res[1].data.error.msg.text = "Too many names")
  /\ <>(pc = "done")

C6_Witness ==
  /\ pc = "done"
  /\ Len(owned) = BoundWindow + 1
  /\ res[1].data.error.msg.text = "Too many names"

\* C7: the envelope is decrypted only after its outer signature verified
\* under the transit public key: for an envelope that does not verify,
\* decryptContent is never called, no registry, hub or upload call is made,
\* and the request ends in an error response.
C7_VerifyBeforeDecrypt ==
  /\ (handler = "signin" /\ Len(CallsOf("decryptContent")) > 0) =>
       TokenVerify(authTransitPubkey, token[1])
  /\ (handler = "signin" /\ token # <<>> /\ ~TokenVerify(authTransitPubkey, token[1])) =>
       /\ calls = <<>>
       /\ authResponse = <<>>
       /\ pc \in {"envelope", "done"}
       /\ pc = "done" => (Status = 400 /\ res[1].contentType = "application/json"
                          /\ resCount = 1)

C7_Witness ==
  /\ handler = "signin"
  /\ pc = "done"
  /\ token # <<>>
  /\ token[1].signer = rogueKey
  /\ Status = 400

\* the credential makeSignInLink put into the envelope of the request
EnvelopedCredential == decryptContent(token[1].payload.json, authTransitKey)[1]

\* C8: the credential in the redirect's authResponse parameter has a
\* metadata envelope of profileUrl alone, none of the handshake fields
\* makeSignInLink put there, and is signed with the chosen identity's own
\* private key.
C8_MetadataStripped ==
  (handler = "signin" /\ pc = "done" /\ Status = 302) =>
    LET sent == res[1].data.Location.authResponse
        meta == EnvelopedCredential.payload.metadata
    IN  /\ DOMAIN meta = {"id", "profileUrl", "appOrigin", "redirect_uri", "scopes", "salt"}
        /\ DOMAIN sent.payload.metadata = {"profileUrl"}
        /\ sent.payload.metadata.profileUrl = meta.profileUrl
        /\ sent.signer = meta.id.privateKey
        /\ sent.signer = getOwnerKeyInfo(meta.id.index).privateKey

C8_Witness ==
  /\ handler = "signin"
  /\ pc = "done"
  /\ Status = 302
  /\ EnvelopedCredential.payload.metadata.id.name # <<>>

\* C9: a request without its token is answered 400 JSON at once: no
\* discovery starts, the address-normalization flag is not touched, and no
\* registry, manifest or storage-hub call is made.
C9_MissingTokenTerminates ==
  [][(pc \in {"idle", "done"} /\ token' = <<>>) =>
       /\ pc' = "done"
       /\ resCount' = 1
       /\ res'[1].status = 400
       /\ res'[1].contentType = "application/json"
       /\ res'[1].data.error.msg.text =
            (IF handler' = "auth" THEN "No authRequest given"
                                  ELSE "No encAuthResponse given")
       /\ calls' = <<>>
       /\ identities' = <<>>
       /\ owned' = <<>>
       /\ coerceMainnet' = coerceMainnet]_vars

C9_Witness ==
  /\ handler = "auth"
  /\ pc = "done"
  /\ token = <<>>
  /\ Status = 400
  /\ calls = <<>>

\* the step of the pipelines an error message belongs to
StepOfMessage(text) ==
  CASE text \in {"No authRequest given", "No encAuthResponse given"} -> "receive"
    [] text \in {"Too many names", "registry unavailable"} -> "discovery"
    [] text \in {"Unable to verify authentication token",
                 "Invalid authentication token: could not verify"} -> "verifyRequest"
    [] text = "Unable to fetch app manifest" -> "manifest"
    [] text = "Invalid encrypted auth response: not signed by this authenticator"
         -> "envelope"
    [] text = "Unable to verify authResponse token " -> "credential"
    [] text = "Failed to upload new profile: hub error" -> "upload"
    [] OTHER -> ""

\* C10: the error field of a terminal error response carries the message of
\* the step that failed, never that of another step and never an undefined
\* message.
C10_ErrorReflectsFailedStep ==
  (pc = "done" /\ Status \in {400, 502}) =>
    /\ res[1].data.error.msg.text # "undefined"
    /\ StepOfMessage(res[1].data.error.msg.text) = failedStep

\* C11: no error response of handleAuth or handleSignIn carries secret
\* material: the JSON error body embeds no credential token, decrypted or
\* partially built (such a token holds the identity object with its private
\* key in its metadata).
C11_NoSecretInError ==
  (pc = "done" /\ Status \in {400, 502}) => res[1].data.error.msg.token = <<>>

\* C12: decryptBackupPhrase attempts decryptMnemonic first and the legacy
\* format only after decryptMnemonic failed; it resolves with
\* decryptMnemonic's result whenever that succeeds; when both fail, the
\* error carries the current-format and the legacy-format messages.
C12_CurrentThenLegacy ==
  /\ dOps \in {<<>>, <<"decryptMnemonic">>, <<"decryptMnemonic", "triplesec.decrypt">>}
  /\ Len(dOps) = 2 => (dCurrent # <<>> /\ ~dCurrent[1].ok)
  /\ (dCurrent # <<>> /\ dCurrent[1].ok) =>
       /\ dpc = "resolved"
       /\ dOutcome = <<[ok |-> TRUE, value |-> dCurrent[1].value, error |-> NoError]>>
  /\ dpc = "rejected" =>
       /\ ~dCurrent[1].ok
       /\ ~triplesecDecrypt(dataBuffer, password).ok
       /\ ~dOutcome[1].ok
       /\ dOutcome[1].error.current = dCurrent[1].message
       /\ dOutcome[1].error.current # ""
       /\ dOutcome[1].error.legacy = triplesecDecrypt(dataBuffer, password).message
  /\ (dpc = "resolved" /\ ~dCurrent[1].ok) =>
       dOutcome[1].value = triplesecDecrypt(dataBuffer, password).value

C12_Witness ==
  /\ dpc = "rejected"
  /\ dOutcome[1].error.current = "Wrong password (HMAC mismatch)"
  /\ dOutcome[1].error.legacy = "triplesec: bad header"

\* the recomputed HMAC differs from the stored one under the password
HmacMismatch ==
  dataBuffer.hmac # Hmac(pbkdf2Sync(password, dataBuffer.salt).macKey,
                         <<dataBuffer.salt, dataBuffer.cipherText>>)

\* C13: in decryptMnemonic the stored HMAC is checked before the ciphertext
\* is decrypted: whenever the recomputed HMAC differs from the stored one,
\* the call fails with 'Wrong password (HMAC mismatch)' and with no other
\* error, whether or not the block cipher would decrypt the ciphertext.
C13_HmacBeforeDecrypt ==
  (dCurrent # <<>> /\ HmacMismatch) =>
    /\ ~dCurrent[1].ok
    /\ dCurrent[1].message = "Wrong password (HMAC mismatch)"
    /\ dCurrent[1].steps = <<"hmac">>

\* C14: lookup failures are independent per identity: every named identity
\* of the result carries the profile and the profile URL that the lookup of
\* its own name returned, an identity whose own lookup resolved with a
\* profile URL is in the result, and one whose own lookup failed is not.
C14_LookupsIndependent ==
  DiscoveryDone =>
    LET all   == NamesBelow(FirstUnowned)
        named == NamedReturned
        resolvedAt(q) == nameDatas[q] # <<>> /\ ~nameDatas[q][1].error
    IN  /\ \A i \in 1..Len(named) :
             LET q == PositionOf(named[i].name, all)
             IN  /\ resolvedAt(q)
                 /\ named[i].profileUrl = nameDatas[q][1].profileUrl
                 /\ named[i].profile = nameDatas[q][1].profile
        /\ \A q \in 1..Len(all) :
             resolvedAt(q) <=> \E i \in 1..Len(named) : named[i].name = all[q]

\* a discovery run (getIdentityInfo) is in progress
DiscoveryRunning == handler = "auth" /\ pc \in {"names", "lookups"}

C16_OneDiscoveryAtATime ==
  /\ Cardinality({r \in Requests : runs[r].pc \in {"names", "lookups"}}) <= 1
  /\ \A r \in Requests : \A i \in 1..Len(runs[r].issued) : runs[r].issued[i].coerce

\* C17: if the client closes the connection while a handleSignIn pipeline is
\* in progress, no profile upload is started at any point after the
\* disconnect.
C17_NoUploadAfterDisconnect ==
  (handler = "signin" /\ closedAt # <<>>) =>
    \A i \in 1..Len(calls) :
      calls[i].op = "gaiaUploadProfileAll" => i <= closedAt[1]

\* C18: every handleAuth and handleSignIn request eventually sends exactly
\* one HTTP response, even when an external call never returns.
C18_EventuallyOneResponse ==
  /\ [](resCount <= 1)
  /\ [](~Accepting => <>(pc = "done" /\ resCount = 1))

\* C19: for every credential built by makeSignInLink and accepted by
\* handleSignIn in the same process, the application private key that
\* handleSignIn re-derives and connects to the storage hub with equals the
\* one makeSignInLink derived and embedded in the credential.
C19_SameAppKey ==
  (handler = "signin" /\ Len(CallsOf("gaiaConnect")) > 0) =>
    LET embedded == EnvelopedCredential.payload
        used     == CallsOf("gaiaConnect")[1].arg
    IN  /\ used = embedded.private_key.content
        /\ getPublicKeyFromPrivateKey(used) = embedded.associationToken.payload.childToAssociate

C19_Witness ==
  /\ handler = "signin"
  /\ pc = "done"
  /\ Status = 302
  /\ CallsOf("gaiaConnect")[1].arg = <<"app", 0, "app.example", "legacy">>
  /\ EnvelopedCredential.payload.private_key.content[4] = "legacy"

\* the credentials of the links of the page the browser shows
CredentialsOfPage == {decryptContent(e.payload.json, authTransitKey)[1] : e \in links}

\* C20, as claimed: getAppPrivateKey falls back to the context-free key only
\* when the lookup of the existing address in the profile fails: whenever
\* the profile references an address, the key returned is the one of that
\* address, a failed address-aware extraction not being replaced silently.
C20_AsClaimed ==
  \A cred \in CredentialsOfPage :
    LET id   == cred.payload.metadata.id
        addr == getGaiaAddressFromProfile(id.profile, cred.payload.metadata.appOrigin)
    IN  addr # <<>> => AddressOfAppKey(cred.payload.private_key.content) = addr[1]

\* C20, amended: getAppPrivateKey attempts the address-aware derivation
\* first: when the profile references the address of one of the two
\* candidate keys it returns that candidate; in every other case, the
\* lookup of the address failing or the address-aware extraction failing,
\* it returns the context-free key.
C20_AppKeyResolution ==
  \A cred \in CredentialsOfPage :
    LET meta == cred.payload.metadata
        key  == cred.payload.private_key.content
        addr == getGaiaAddressFromProfile(meta.id.profile, meta.appOrigin)
        info == getApplicationKeyInfo(meta.id.idAddress, meta.appOrigin, meta.id.index)
    IN  IF addr # <<>> /\ addr[1] = info.keyInfo.address
          THEN key = info.keyInfo.privateKey
        ELSE IF addr # <<>> /\ addr[1] = info.legacyKeyInfo.address
          THEN key = info.legacyKeyInfo.privateKey
        ELSE key = info.keyInfo.privateKey

C20_Witness ==
  \E cred \in CredentialsOfPage, other \in CredentialsOfPage :
    /\ getGaiaAddressFromProfile(cred.payload.metadata.id.profile,
                                 cred.payload.metadata.appOrigin) = << <<"c">> >>
    /\ cred.payload.private_key.content[4] = "current"
    /\ other.payload.private_key.content[4] = "legacy"

\* C21: the per-handshake salt prevents replay: once handleSignIn has
\* answered an encAuthResponse with the redirect, the same encAuthResponse
\* submitted again to the same process is not answered with a second
\* redirect.
C21_NoReplay ==
  [][(handler' = "signin" /\ pc # "done" /\ pc' = "done" /\ res'[1].status = 302)
       => token[1] \notin redeemed]_vars

\* the profile the lookup fetched, if it fetched one
RcFetched ==
  IF rcData = <<>> THEN <<>> ELSE rcData[1].profile

\* C22: reconciliation changes nothing but the requested pointer: for an
\* existing profile, updateProfileApps leaves every apps entry other than
\* apps[origin] and every other profile field (type, account) unchanged, and
\* when it reports changed=false the profile returned is identical to the
\* profile fetched.
C22_ReconcileFrame ==
  (rcFirst # <<>> /\ RcFetched # <<>>) =>
    LET old     == RcFetched[1]
        new     == rcFirst[1].profile
        oldApps == IF old.apps = <<>> THEN <<>> ELSE old.apps[1]
        newApps == new.apps[1]
    IN  /\ DOMAIN new = DOMAIN old
        /\ new.type = old.type
        /\ new.account = old.account
        /\ DOMAIN newApps = DOMAIN oldApps \cup {rcOrigin}
        /\ \A o \in DOMAIN oldApps \ {rcOrigin} : newApps[o] = oldApps[o]
        /\ ~rcFirst[1].changed => new = old

C22_Witness ==
  /\ rcFirst # <<>>
  /\ RcFetched # <<>>
  /\ rcFirst[1].changed
  /\ RcFetched[1].apps # <<>>
  /\ DOMAIN RcFetched[1].apps[1] = Origins
  /\ rcFirst[1].profile.apps[1][rcOrigin] # RcFetched[1].apps[1][rcOrigin]

====
